---- MODULE Spec2Model ----
(***************************************************************************)
(* The singly-linked stack of src/src/list_generic_with_peek.rs            *)
(* (List<T>, Link<T> = Option<Box<Node<T>>>), together with its two i32    *)
(* predecessors: src/src/list_option.rs (Link = Option<Box<Node>>, built   *)
(* with std::mem::replace) and src/src/main.rs (enum Link {Empty, More}).  *)
(*                                                                         *)
(* The generic list is modelled on an explicit heap: a Box<Node<T>> is the *)
(* address of a heap cell, Box::new allocates a free cell, and dropping a  *)
(* Box frees it.  The two i32 lists are modelled as owned values (a Box    *)
(* holds its node by value).                                               *)
(*                                                                         *)
(* Spec is the program that uses the generic list, every call of its API   *)
(* included.  SpecLockstep gives the same calls, with the same arguments,  *)
(* to the three lists at once, over the API the three share.               *)
(***************************************************************************)
EXTENDS Integers, Sequences, FiniteSets, TLC

(* Bounds of the model. *)
MaxLen == 3
MaxElem == 1

Elem == 0..MaxElem             \* the values of T (i32 in the two other lists)
Addr == 1..(MaxLen + 1)        \* the heap cells Box::new can return
Index == 0..MaxLen             \* the usize arguments given to lookup

VARIABLES
    heap,         \* Addr -> heap cell: the Box<Node<T>> allocations
    list,         \* the List<T> of list_generic_with_peek.rs: [head |-> Link<T>]
    borrow,       \* the live `&mut T` returned by peek_mut: None or Some(addr)
    opt_list,     \* the List of list_option.rs: [head |-> Link]
    enum_list,    \* the List of main.rs: [head |-> Link]
    op,           \* the last call made on the lists
    arg,          \* its argument (push: elem, lookup: index, assign: value)
    result,       \* what the call returned on list
    opt_result,   \* what the call returned on opt_list
    enum_result,  \* what the call returned on enum_list
    old,          \* old(snap(self)): the elements of list before the call
    pushed,       \* SpecLockstep's log: the pushes whose node is still allocated,
                  \* oldest first, each [cell |-> Box address, elem |-> value pushed]
    balance       \* the number of push calls made so far minus the number of
                  \* pop and try_pop calls that returned an element

vars == <<heap, list, borrow, opt_list, enum_list, op, arg,
          result, opt_result, enum_result, old, pushed, balance>>

----------------------------------------------------------------------------
(* Values of the Rust types. *)

\* std::option::Option<T>
None == [tag |-> "None"]
Some(x) == [tag |-> "Some", val |-> x]

\* What a call hands back: a value (T, &T, usize, bool), nothing, or a panic.
Val(x) == [tag |-> "Val", val |-> x]
Unit == [tag |-> "Unit"]
Panic == [tag |-> "Panic"]

\* Option::is_none / Option::is_some
is_none(self) == self.tag = "None"
is_some(self) == self.tag = "Some"

\* Option::unwrap: the payload, or a panic on None.
unwrap(self) == IF is_some(self) THEN Val(self.val) ELSE Panic

\* take that leaves the value where it was: a copy of the link, not a move.
take_copies(self) == [result |-> self, self |-> self]

\* Option::take: the old value is returned, None is left behind.
take(self) == [result |-> self, self |-> None]

\* std::mem::replace: the old value is returned, src is left behind.
replace(dest, src) == [result |-> dest, dest |-> src]

----------------------------------------------------------------------------
(* list_generic_with_peek.rs: List<T> on the heap. *)

\* struct Node<T> { elem, next } in a live heap cell, and a cell not allocated.
Node(elem, next) == [live |-> TRUE, elem |-> elem, next |-> next]
FreeCell == [live |-> FALSE, elem |-> 0, next |-> None]

\* link_len with the `1 +` of its Some arm left out.
RECURSIVE link_len_uncounted(_, _)
link_len_uncounted(h, link) ==
    IF is_none(link) THEN 0
    ELSE link_len_uncounted(h, h[link.val].next)

\* fn link_len<T>(link: &Link<T>) -> usize
RECURSIVE link_len(_, _)
link_len(h, link) ==
    IF is_none(link) THEN 0
    ELSE 1 + link_len(h, h[link.val].next)

\* link_lookup whose None arm hands out a default element instead of
\* panicking.
RECURSIVE link_lookup_default(_, _, _)
link_lookup_default(h, link, index) ==
    IF is_some(link)
    THEN IF index = 0
         THEN Val(h[link.val].elem)
         ELSE link_lookup_default(h, h[link.val].next, index - 1)
    ELSE Val(0)

\* link_lookup that stops at the last node when the index runs past it.
RECURSIVE link_lookup_clamped(_, _, _)
link_lookup_clamped(h, link, index) ==
    IF is_some(link)
    THEN IF index = 0 \/ is_none(h[link.val].next)
         THEN Val(h[link.val].elem)
         ELSE link_lookup_clamped(h, h[link.val].next, index - 1)
    ELSE Panic

\* fn link_lookup<T>(link: &Link<T>, index: usize) -> &T
RECURSIVE link_lookup(_, _, _)
link_lookup(h, link, index) ==
    IF is_some(link)
    THEN IF index = 0
         THEN Val(h[link.val].elem)
         ELSE link_lookup(h, h[link.val].next, index - 1)
    ELSE Panic                                   \* unreachable!()

\* List::len
len(h, self) == link_len(h, self.head)

\* is_empty matching the wrong variant: matches!(self.head, Some(_)).
is_empty_inverted(self) == self.head.tag = "Some"

\* List::is_empty
is_empty(self) == self.head.tag = "None"         \* matches!(self.head, None)

\* new whose head is not None: a link to a node that was never made.
new_with_head == [head |-> Some(1)]

\* List::new
new == [head |-> None]

\* List::lookup
lookup(h, self, index) == link_lookup(h, self.head, index)

\* push with `next: None`: the old head is taken and never linked.
push_loses_tail(h, self, a, elem) ==
    [heap |-> [h EXCEPT ![a] = Node(elem, None)],
     self |-> [self EXCEPT !.head = Some(a)]]

\* push without `self.head = Some(new_node)`: the head stays as take left it.
push_keeps_head(h, self, a, elem) ==
    LET taken == take(self.head)
    IN  [heap |-> [h EXCEPT ![a] = Node(elem, taken.result)],
         self |-> [self EXCEPT !.head = taken.self]]

\* push linking the new node behind the head node instead of in front of it.
push_behind_head(h, self, a, elem) ==
    IF is_none(self.head)
    THEN [heap |-> [h EXCEPT ![a] = Node(elem, None)],
          self |-> [self EXCEPT !.head = Some(a)]]
    ELSE [heap |-> [h EXCEPT ![a] = Node(elem, h[self.head.val].next),
                             ![self.head.val].next = Some(a)],
          self |-> self]

\* List::push; a is the cell Box::new returns.
push(h, self, a, elem) ==
    LET taken == take(self.head)                     \* self.head.take()
        new_node == Node(elem, taken.result)
    IN  [heap |-> [h EXCEPT ![a] = new_node],        \* Box::new(Node {..})
         self |-> [self EXCEPT !.head = Some(a)]]    \* self.head = Some(new_node)

\* predicate! head_removed(&self, prev: &Self); (h, self) is the state after
\* the removal, (ph, prev) the one before.
head_removed(h, self, ph, prev) ==
    /\ len(h, self) = len(ph, prev) - 1
    /\ \A i \in 0..len(ph, prev) :
          (1 <= i /\ i < len(ph, prev))
              => lookup(ph, prev, i) = lookup(h, self, i - 1)

\* try_pop whose Some arm ends in None: the element is dropped with its node.
try_pop_drops_elem(h, self) ==
    LET taken == take(self.head)
    IN  IF is_none(taken.result)
        THEN [heap |-> h, self |-> [self EXCEPT !.head = taken.self], result |-> None]
        ELSE LET node == h[taken.result.val]
             IN  [heap |-> [h EXCEPT ![taken.result.val] = FreeCell],
                  self |-> [self EXCEPT !.head = node.next],
                  result |-> None]

\* try_pop without `self.head = node.next`: the head stays as take left it.
try_pop_forgets_relink(h, self) ==
    LET taken == take(self.head)
    IN  IF is_none(taken.result)
        THEN [heap |-> h, self |-> [self EXCEPT !.head = taken.self], result |-> None]
        ELSE LET node == h[taken.result.val]
             IN  [heap |-> [h EXCEPT ![taken.result.val] = FreeCell],
                  self |-> [self EXCEPT !.head = taken.self],
                  result |-> Some(node.elem)]

\* try_pop that unwraps the taken head: a panic where the None arm should be.
try_pop_unwraps(h, self) ==
    LET taken == take(self.head)
    IN  IF is_none(taken.result)
        THEN [heap |-> h, self |-> [self EXCEPT !.head = taken.self], result |-> Panic]
        ELSE LET node == h[taken.result.val]
             IN  [heap |-> [h EXCEPT ![taken.result.val] = FreeCell],
                  self |-> [self EXCEPT !.head = node.next],
                  result |-> Some(node.elem)]

\* try_pop that puts the taken node back: it returns the head element and
\* leaves the node in the chain.
try_pop_restores_head(h, self) ==
    LET taken == take(self.head)
    IN  IF is_none(taken.result)
        THEN [heap |-> h, self |-> self, result |-> None]
        ELSE [heap |-> h, self |-> self, result |-> Some(h[taken.result.val].elem)]

\* List::try_pop
try_pop(h, self) ==
    LET taken == take(self.head)                     \* self.head.take()
    IN  IF is_none(taken.result)
        THEN [heap |-> h,
              self |-> [self EXCEPT !.head = taken.self],
              result |-> None]
        ELSE LET node == h[taken.result.val]
             IN  [heap |-> [h EXCEPT ![taken.result.val] = FreeCell],  \* drop(node)
                  self |-> [self EXCEPT !.head = node.next],
                  result |-> Some(node.elem)]

(* The statements of push and try_pop, one machine state after each.  A    *)
(* machine state is the heap, the list and the owning links held by the    *)
(* locals and temporaries of the running call.                             *)

\* List::push, statement by statement: `self.head.take()` (the temporary
\* owns the old chain), `Box::new(Node { elem, next })` (new_node owns cell
\* a, whose next owns the old chain), `self.head = Some(new_node)`.
push_steps(h, self, a, elem) ==
    LET taken == take(self.head)
        emptied == [self EXCEPT !.head = taken.self]
        boxed == [h EXCEPT ![a] = Node(elem, taken.result)]
    IN  << [heap |-> h, self |-> emptied, locals |-> <<taken.result>>],
           [heap |-> boxed, self |-> emptied, locals |-> <<Some(a)>>],
           [heap |-> boxed, self |-> [emptied EXCEPT !.head = Some(a)],
            locals |-> << >>] >>

\* List::try_pop, statement by statement: `self.head.take()` (the scrutinee
\* owns the old chain); in the Some(node) arm `self.head = node.next` (the
\* link is moved out of the box, which keeps no owning link), then
\* `Some(node.elem)` with the box dropped at the end of the arm.
try_pop_steps(h, self) ==
    LET taken == take(self.head)
        emptied == [self EXCEPT !.head = taken.self]
    IN  IF is_none(taken.result)
        THEN << [heap |-> h, self |-> emptied, locals |-> <<taken.result>>],
                [heap |-> h, self |-> emptied, locals |-> << >>] >>
        ELSE LET n == taken.result.val
                 moved == [h EXCEPT ![n].next = None]
             IN  << [heap |-> h, self |-> emptied, locals |-> <<taken.result>>],
                    [heap |-> moved, self |-> [emptied EXCEPT !.head = h[n].next],
                     locals |-> <<Some(n)>>],
                    [heap |-> [moved EXCEPT ![n] = FreeCell],
                     self |-> [emptied EXCEPT !.head = h[n].next],
                     locals |-> << >>] >>

\* The machine state between two calls: no call is running, no local exists.
at_rest(h, self) == [heap |-> h, self |-> self, locals |-> << >>]

\* The number of owning links to cell c: the head of the list, the next of a
\* live node, a local.
owners(st, c) ==
    (IF st.self.head = Some(c) THEN 1 ELSE 0)
    + Cardinality({d \in Addr : st.heap[d].live /\ st.heap[d].next = Some(c)})
    + Cardinality({i \in DOMAIN st.locals : st.locals[i] = Some(c)})

\* The cells met from link by following next, for at most fuel nodes.
RECURSIVE chain(_, _, _)
chain(h, link, fuel) ==
    IF is_none(link) \/ fuel = 0 THEN {}
    ELSE {link.val} \cup chain(h, h[link.val].next, fuel - 1)

\* The chain from link reaches an empty link within fuel nodes.
RECURSIVE ends(_, _, _)
ends(h, link, fuel) ==
    IF is_none(link) THEN TRUE
    ELSE IF fuel = 0 THEN FALSE
    ELSE ends(h, h[link.val].next, fuel - 1)

\* The nodes reachable from the head of the list.
reachable(h, self) == chain(h, self.head, Cardinality(Addr))

\* Ownership in a machine state: the owning links (the head, the next of
\* each live node, the locals) that are not empty lead one-to-one onto the
\* live nodes, so that a live node has exactly one owner and no link leads
\* to a freed cell; and the chain from the head and from every local ends
\* (it cannot end within as many nodes as there are cells if it has a cycle).
ownership(st) ==
    LET live == {c \in Addr : st.heap[c].live}
        heads == IF is_some(st.self.head) THEN {st.self.head.val} ELSE {}
        nexts == {d \in live : is_some(st.heap[d].next)}
        held == {i \in DOMAIN st.locals : is_some(st.locals[i])}
        owned == heads \cup {st.heap[d].next.val : d \in nexts}
                       \cup {st.locals[i].val : i \in held}
    IN  /\ owned = live
        /\ Cardinality(heads) + Cardinality(nexts) + Cardinality(held)
               = Cardinality(live)
        /\ ends(st.heap, st.self.head, Cardinality(Addr))
        /\ \A i \in DOMAIN st.locals : ends(st.heap, st.locals[i], Cardinality(Addr))

\* pop that calls try_pop a second time on what the first call left.
pop_twice(h, self) ==
    LET first == try_pop(h, self)
        second == try_pop(first.heap, first.self)
    IN  [heap |-> second.heap, self |-> second.self, result |-> unwrap(first.result)]

\* pop that reads the head element and removes nothing.
pop_peeks(h, self) ==
    [heap |-> h, self |-> self, result |-> link_lookup(h, self.head, 0)]

\* List::pop
pop(h, self) ==
    LET r == try_pop(h, self)
    IN  [heap |-> r.heap, self |-> r.self, result |-> unwrap(r.result)]

\* peek reading the element at the far end of the chain.
peek_last(h, self) == lookup(h, self, len(h, self) - 1)

\* List::peek
peek(h, self) == lookup(h, self, 0)

\* peek_mut borrowing from node.next when there is one: `&mut next.elem`.
peek_mut_next(h, self) ==
    IF is_some(self.head)
    THEN IF is_some(h[self.head.val].next)
         THEN [ref |-> h[self.head.val].next,
               result |-> Val(h[h[self.head.val].next.val].elem)]
         ELSE [ref |-> Some(self.head.val), result |-> Val(h[self.head.val].elem)]
    ELSE [ref |-> None, result |-> Panic]

\* peek_mut handing out the head element without a reference into the list.
peek_mut_detached(h, self) ==
    IF is_some(self.head)
    THEN [ref |-> None, result |-> Val(h[self.head.val].elem)]
    ELSE [ref |-> None, result |-> Panic]

\* List::peek_mut: the reference is the address of the head cell, whose elem
\* it reads and writes.
peek_mut(h, self) ==
    IF is_some(self.head)
    THEN [ref |-> Some(self.head.val), result |-> Val(h[self.head.val].elem)]
    ELSE [ref |-> None, result |-> Panic]        \* unreachable!()

\* *r = value, for the r: &mut T that peek_mut returned (the elem of cell a).
assign(h, a, value) == [h EXCEPT ![a].elem = value]

\* old(snap(self)): the elements of the list, index 0 first.
snap(h, self) == [i \in 1..len(h, self) |-> lookup(h, self, i - 1).val]

----------------------------------------------------------------------------
(* list_option.rs: List over i32, Link = Option<Box<Node>>, nodes by value. *)

\* struct Node { elem: i32, next: Link }
opt_Node(elem, next) == [elem |-> elem, next |-> next]

\* fn link_len(link: &Link) -> usize
RECURSIVE opt_link_len(_)
opt_link_len(link) ==
    IF is_none(link) THEN 0
    ELSE 1 + opt_link_len(link.val.next)

\* fn link_lookup(link: &Link, index: usize) -> i32
RECURSIVE opt_link_lookup(_, _)
opt_link_lookup(link, index) ==
    IF is_some(link)
    THEN IF index = 0
         THEN Val(link.val.elem)
         ELSE opt_link_lookup(link.val.next, index - 1)
    ELSE Panic                                   \* unreachable!()

\* List::new
opt_new == [head |-> None]

\* List::len
opt_len(self) == opt_link_len(self.head)

\* List::lookup
opt_lookup(self, index) == opt_link_lookup(self.head, index)

\* List::push
opt_push(self, elem) ==
    LET replaced == replace(self.head, None)     \* mem::replace(&mut self.head, None)
        new_node == opt_Node(elem, replaced.result)
    IN  [self EXCEPT !.head = Some(new_node)]

\* List::is_empty
opt_is_empty(self) == is_none(self.head)

\* predicate! head_removed(&self, prev: &Self)
opt_head_removed(self, prev) ==
    /\ opt_len(self) = opt_len(prev) - 1
    /\ \A i \in 0..opt_len(prev) :
          (1 <= i /\ i < opt_len(prev))
              => opt_lookup(prev, i) = opt_lookup(self, i - 1)

\* List::try_pop
opt_try_pop(self) ==
    LET replaced == replace(self.head, None)     \* mem::replace(&mut self.head, None)
    IN  IF is_none(replaced.result)
        THEN [self |-> [self EXCEPT !.head = replaced.dest], result |-> None]
        ELSE LET node == replaced.result.val
             IN  [self |-> [self EXCEPT !.head = node.next],
                  result |-> Some(node.elem)]

\* List::pop
opt_pop(self) ==
    LET r == opt_try_pop(self)
    IN  [self |-> r.self, result |-> unwrap(r.result)]

----------------------------------------------------------------------------
(* main.rs: List over i32, enum Link { Empty, More(Box<Node>) }. *)

\* enum Link
Empty == [tag |-> "Empty"]
More(node) == [tag |-> "More", node |-> node]

\* struct Node { elem: i32, next: Link }
enum_Node(elem, next) == [elem |-> elem, next |-> next]

\* Link::len
RECURSIVE Link_len(_)
Link_len(self) ==
    IF self.tag = "Empty" THEN 0
    ELSE 1 + Link_len(self.node.next)

\* Link::is_empty
Link_is_empty(self) == self.tag = "Empty"        \* matches!(self, Link::Empty)

\* Link::lookup
RECURSIVE Link_lookup(_, _)
Link_lookup(self, index) ==
    IF self.tag = "More"
    THEN IF index = 0
         THEN Val(self.node.elem)
         ELSE Link_lookup(self.node.next, index - 1)
    ELSE Panic                                   \* unreachable!()

\* fn test_len(link: &Link): the value its assert! tests.
test_len(link) ==
    LET link_is_empty == Link_is_empty(link)
        link_length == Link_len(link)
    IN  link_is_empty = (link_length = 0)

\* List::new
enum_new == [head |-> Empty]

\* List::len
enum_len(self) == Link_len(self.head)

\* List::lookup
enum_lookup(self, index) == Link_lookup(self.head, index)

\* main.rs push with `next: Link::Empty`: the replaced head is never linked.
enum_push_loses_tail(self, elem) ==
    [self EXCEPT !.head = More(enum_Node(elem, Empty))]

\* List::push
enum_push(self, elem) ==
    LET replaced == replace(self.head, Empty)    \* mem::replace(&mut self.head, Link::Empty)
        new_node == enum_Node(elem, replaced.result)
    IN  [self EXCEPT !.head = More(new_node)]

\* List::is_empty
enum_is_empty(self) == Link_is_empty(self.head)

\* predicate! head_removed(&self, prev: &Self)
enum_head_removed(self, prev) ==
    /\ enum_len(self) = enum_len(prev) - 1
    /\ \A i \in 0..enum_len(prev) :
          (1 <= i /\ i < enum_len(prev))
              => enum_lookup(prev, i) = enum_lookup(self, i - 1)

\* List::try_pop
enum_try_pop(self) ==
    LET replaced == replace(self.head, Empty)    \* mem::replace(&mut self.head, Link::Empty)
    IN  IF replaced.result.tag = "Empty"
        THEN [self |-> [self EXCEPT !.head = replaced.dest], result |-> None]
        ELSE LET node == replaced.result.node
             IN  [self |-> [self EXCEPT !.head = node.next],
                  result |-> Some(node.elem)]

\* List::pop
enum_pop(self) ==
    LET r == enum_try_pop(self)
    IN  [self |-> r.self, result |-> unwrap(r.result)]

----------------------------------------------------------------------------
(* The calls.  A panic ends the program; while the `&mut T` of peek_mut is  *)
(* live the borrow checker admits no call on the list, only uses of the    *)
(* reference.  <Call>List is the call on the generic list, <Call>I32 the   *)
(* same call on the two i32 lists.                                         *)

i32vars == <<opt_list, enum_list, opt_result, enum_result>>

running ==
    /\ result.tag # "Panic"
    /\ opt_result.tag # "Panic"
    /\ enum_result.tag # "Panic"

callable == running /\ is_none(borrow)

\* let mut list = List::new();
Init ==
    /\ heap = [a \in Addr |-> FreeCell]
    /\ list = new
    /\ borrow = None
    /\ opt_list = opt_new
    /\ enum_list = enum_new
    /\ op = "new"
    /\ arg = 0
    /\ result = Unit
    /\ opt_result = Unit
    /\ enum_result = Unit
    /\ old = <<>>
    /\ pushed = <<>>
    /\ balance = 0

\* list.push(elem), Box::new returning cell a
PushList(a, elem) ==
    /\ callable
    /\ len(heap, list) < MaxLen
    /\ ~heap[a].live
    /\ LET r == push(heap, list, a, elem)
       IN  heap' = r.heap /\ list' = r.self
    /\ op' = "push"
    /\ arg' = elem
    /\ result' = Unit
    /\ old' = snap(heap, list)
    /\ balance' = balance + 1
    /\ UNCHANGED borrow

PushI32(elem) ==
    /\ opt_list' = opt_push(opt_list, elem)
    /\ enum_list' = enum_push(enum_list, elem)
    /\ opt_result' = Unit
    /\ enum_result' = Unit

\* list.try_pop()
TryPopList ==
    /\ callable
    /\ LET r == try_pop(heap, list)
       IN  /\ heap' = r.heap /\ list' = r.self /\ result' = r.result
           /\ balance' = IF r.result.tag = "Some" THEN balance - 1 ELSE balance
    /\ op' = "try_pop"
    /\ arg' = 0
    /\ old' = snap(heap, list)
    /\ UNCHANGED borrow

TryPopI32 ==
    /\ LET r == opt_try_pop(opt_list)
       IN  opt_list' = r.self /\ opt_result' = r.result
    /\ LET r == enum_try_pop(enum_list)
       IN  enum_list' = r.self /\ enum_result' = r.result

\* list.pop()
PopList ==
    /\ callable
    /\ LET r == pop(heap, list)
       IN  /\ heap' = r.heap /\ list' = r.self /\ result' = r.result
           /\ balance' = IF r.result.tag = "Val" THEN balance - 1 ELSE balance
    /\ op' = "pop"
    /\ arg' = 0
    /\ old' = snap(heap, list)
    /\ UNCHANGED borrow

PopI32 ==
    /\ LET r == opt_pop(opt_list)
       IN  opt_list' = r.self /\ opt_result' = r.result
    /\ LET r == enum_pop(enum_list)
       IN  enum_list' = r.self /\ enum_result' = r.result

\* list.len()
LenList ==
    /\ callable
    /\ op' = "len"
    /\ arg' = 0
    /\ result' = Val(len(heap, list))
    /\ old' = snap(heap, list)
    /\ UNCHANGED <<heap, list, borrow, balance>>

LenI32 ==
    /\ opt_result' = Val(opt_len(opt_list))
    /\ enum_result' = Val(enum_len(enum_list))
    /\ UNCHANGED <<opt_list, enum_list>>

\* list.is_empty()
IsEmptyList ==
    /\ callable
    /\ op' = "is_empty"
    /\ arg' = 0
    /\ result' = Val(is_empty(list))
    /\ old' = snap(heap, list)
    /\ UNCHANGED <<heap, list, borrow, balance>>

IsEmptyI32 ==
    /\ opt_result' = Val(opt_is_empty(opt_list))
    /\ enum_result' = Val(enum_is_empty(enum_list))
    /\ UNCHANGED <<opt_list, enum_list>>

\* list.lookup(index)
LookupList(index) ==
    /\ callable
    /\ op' = "lookup"
    /\ arg' = index
    /\ result' = lookup(heap, list, index)
    /\ old' = snap(heap, list)
    /\ UNCHANGED <<heap, list, borrow, balance>>

LookupI32(index) ==
    /\ opt_result' = opt_lookup(opt_list, index)
    /\ enum_result' = enum_lookup(enum_list, index)
    /\ UNCHANGED <<opt_list, enum_list>>

(* Spec: the program over the generic list. *)

Push(elem) == (\E a \in Addr : PushList(a, elem)) /\ UNCHANGED <<i32vars, pushed>>
TryPop == TryPopList /\ UNCHANGED <<i32vars, pushed>>
Pop == PopList /\ UNCHANGED <<i32vars, pushed>>
Length == LenList /\ UNCHANGED <<i32vars, pushed>>
IsEmpty == IsEmptyList /\ UNCHANGED <<i32vars, pushed>>
Lookup(index) == LookupList(index) /\ UNCHANGED <<i32vars, pushed>>

\* list.peek()
Peek ==
    /\ callable
    /\ op' = "peek"
    /\ arg' = 0
    /\ result' = peek(heap, list)
    /\ old' = snap(heap, list)
    /\ UNCHANGED <<heap, list, borrow, balance>>
    /\ UNCHANGED <<i32vars, pushed>>

\* let first = list.peek_mut();
PeekMut ==
    /\ callable
    /\ LET r == peek_mut(heap, list)
       IN  borrow' = r.ref /\ result' = r.result
    /\ op' = "peek_mut"
    /\ arg' = 0
    /\ old' = snap(heap, list)
    /\ UNCHANGED <<heap, list, balance>>
    /\ UNCHANGED <<i32vars, pushed>>

\* *first = value;
Assign(value) ==
    /\ running
    /\ is_some(borrow)
    /\ heap' = assign(heap, borrow.val, value)
    /\ op' = "assign"
    /\ arg' = value
    /\ result' = Unit
    /\ UNCHANGED <<list, borrow, old, balance>>
    /\ UNCHANGED <<i32vars, pushed>>

\* the last use of first: the reference expires
Expire ==
    /\ running
    /\ is_some(borrow)
    /\ borrow' = None
    /\ op' = "expire"
    /\ UNCHANGED <<heap, list, arg, result, old, balance>>
    /\ UNCHANGED <<i32vars, pushed>>

Next ==
    \/ \E elem \in Elem : Push(elem)
    \/ TryPop
    \/ Pop
    \/ Length
    \/ IsEmpty
    \/ \E index \in Index : Lookup(index)
    \/ Peek
    \/ PeekMut
    \/ \E value \in Elem : Assign(value)
    \/ Expire

Spec == Init /\ [][Next]_vars

(* SpecLockstep: the three lists under the same calls. *)

\* The log after a call: the pushes whose node the call left allocated.
surviving(h) == SelectSeq(pushed, LAMBDA e : h[e.cell].live)

PushAll(elem) ==
    \E a \in Addr :
        /\ PushList(a, elem)
        /\ PushI32(elem)
        /\ pushed' = Append(pushed, [cell |-> a, elem |-> elem])
TryPopAll == TryPopList /\ TryPopI32 /\ pushed' = surviving(heap')
PopAll == PopList /\ PopI32 /\ pushed' = surviving(heap')
LenAll == LenList /\ LenI32 /\ UNCHANGED pushed
IsEmptyAll == IsEmptyList /\ IsEmptyI32 /\ UNCHANGED pushed
LookupAll(index) == LookupList(index) /\ LookupI32(index) /\ UNCHANGED pushed

NextLockstep ==
    \/ \E elem \in Elem : PushAll(elem)
    \/ TryPopAll
    \/ PopAll
    \/ LenAll
    \/ IsEmptyAll
    \/ \E index \in Index : LookupAll(index)

SpecLockstep == Init /\ [][NextLockstep]_vars

----------------------------------------------------------------------------
(* The contracts of try_pop and push (C1 - C5). *)

\* C1: on a non-empty stack, try_pop returns Some(v) with v the element
\* lookup(0) gave just before the call; checked on each of the three lists.
C1_TryPopReturnsHead ==
    [][op' = "try_pop" =>
        /\ ~is_empty(list) =>
              /\ result'.tag = "Some"
              /\ Val(result'.val) = lookup(heap, list, 0)
        /\ ~opt_is_empty(opt_list) =>
              /\ opt_result'.tag = "Some"
              /\ Val(opt_result'.val) = opt_lookup(opt_list, 0)
        /\ ~enum_is_empty(enum_list) =>
              /\ enum_result'.tag = "Some"
              /\ Val(enum_result'.val) = enum_lookup(enum_list, 0)]_vars

\* C1 witness: try_pop has just returned Some(1) from a stack that held 1 on
\* top of 0, on each of the three lists.
C1_Witness ==
    /\ op = "try_pop"
    /\ old = <<1, 0>>
    /\ result = Some(1) /\ opt_result = Some(1) /\ enum_result = Some(1)

\* C2: on a non-empty stack, the state after try_pop satisfies head_removed
\* against the state before it: the length is one less and every element at
\* index i >= 1 is now at index i - 1; checked on each of the three lists.
C2_TryPopHeadRemoved ==
    [][op' = "try_pop" =>
        /\ ~is_empty(list) => head_removed(heap', list', heap, list)
        /\ ~opt_is_empty(opt_list) => opt_head_removed(opt_list', opt_list)
        /\ ~enum_is_empty(enum_list) => enum_head_removed(enum_list', enum_list)]_vars

\* C2 witness: try_pop has just removed the head of a three-element stack,
\* and the two survivors are at indices 0 and 1 of each list.
C2_Witness ==
    /\ op = "try_pop"
    /\ old = <<1, 0, 1>>
    /\ len(heap, list) = 2 /\ opt_len(opt_list) = 2 /\ enum_len(enum_list) = 2
    /\ lookup(heap, list, 0) = Val(0) /\ lookup(heap, list, 1) = Val(1)
    /\ opt_lookup(opt_list, 1) = Val(1) /\ enum_lookup(enum_list, 1) = Val(1)

\* C3: push is a pure prepend: every element that was at an index i < len()
\* before push(v) is at index i + 1 after it; checked on each of the three
\* lists.
C3_PushShiftsByOne ==
    [][op' = "push" =>
        /\ \A i \in 0..len(heap, list) :
              i < len(heap, list) =>
                  lookup(heap, list, i) = lookup(heap', list', i + 1)
        /\ \A i \in 0..opt_len(opt_list) :
              i < opt_len(opt_list) =>
                  opt_lookup(opt_list, i) = opt_lookup(opt_list', i + 1)
        /\ \A i \in 0..enum_len(enum_list) :
              i < enum_len(enum_list) =>
                  enum_lookup(enum_list, i) = enum_lookup(enum_list', i + 1)]_vars

\* C3 witness: push(1) has just been made on a stack holding 0 on top of 1,
\* which are now at indices 1 and 2 of each list.
C3_Witness ==
    /\ op = "push" /\ arg = 1
    /\ old = <<0, 1>>
    /\ lookup(heap, list, 1) = Val(0) /\ lookup(heap, list, 2) = Val(1)
    /\ opt_lookup(opt_list, 1) = Val(0) /\ opt_lookup(opt_list, 2) = Val(1)
    /\ enum_lookup(enum_list, 1) = Val(0) /\ enum_lookup(enum_list, 2) = Val(1)

\* C4: after push(v) the length is the length before the call plus 1.
C4_PushLenPlusOne ==
    [][op' = "push" => len(heap', list') = len(heap, list) + 1]_vars

\* C4 witness: a push has just taken the stack from two elements to three.
C4_Witness ==
    /\ op = "push"
    /\ Len(old) = 2
    /\ len(heap, list) = 3

\* C5: after push(v) the element at index 0 is v.
C5_PushHeadIsElem ==
    [][op' = "push" => lookup(heap', list', 0) = Val(arg')]_vars

\* C5 witness: push(1) has just been made on a stack whose head was 0, and
\* lookup(0) now gives 1.
C5_Witness ==
    /\ op = "push" /\ arg = 1
    /\ Len(old) >= 1 /\ old[1] = 0
    /\ lookup(heap, list, 0) = Val(1)

----------------------------------------------------------------------------
(* try_pop on the empty stack, the push/pop round trip, is_empty (C6 - C8). *)

\* C6: try_pop on an empty stack returns None and leaves the stack empty and
\* unchanged (no cell allocated or freed); and whenever try_pop has returned
\* None the stack is empty, so that a repeated try_pop starts from the empty
\* stack again and returns None again.
C6_TryPopOnEmpty ==
    /\ [][(op' = "try_pop" /\ is_empty(list)) =>
            /\ result' = None
            /\ is_empty(list') /\ len(heap', list') = 0
            /\ list' = list /\ heap' = heap]_vars
    /\ []((op = "try_pop" /\ result = None) => (is_empty(list) /\ old = <<>>))

\* C6 witness: try_pop has just returned None on the empty stack, and the
\* try_pop that repeats it returns None on the empty stack again.
C6_Witness ==
    /\ op = "try_pop"
    /\ result = None
    /\ old = <<>>
    /\ is_empty(list) /\ len(heap, list) = 0
    /\ ENABLED (TryPop /\ result' = None /\ is_empty(list') /\ heap' = heap)

\* C7: push(v) followed immediately by pop() returns v and leaves the stack
\* as it was before the push: the same length and the same element at every
\* index.
C7_PushPopRoundTrip ==
    [][(op = "push" /\ op' = "pop") =>
            /\ result' = Val(arg)
            /\ len(heap', list') = Len(old)
            /\ \A i \in 1..Len(old) : lookup(heap', list', i - 1) = Val(old[i])]_vars

\* C7 witness: push(1) has just been made on the stack <<0, 1>>, and the pop
\* that follows it returns 1 and leaves <<0, 1>>.
C7_Witness ==
    /\ op = "push" /\ arg = 1
    /\ old = <<0, 1>>
    /\ ENABLED (Pop /\ result' = Val(1) /\ snap(heap', list') = <<0, 1>>)

\* C8: in every state reached by push, pop, try_pop and writes through
\* peek_mut, is_empty() is true exactly when len() is 0.
C8_IsEmptyIffLenZero ==
    is_empty(list) <=> (len(heap, list) = 0)

\* C8 witness: a write through peek_mut has just been made on a stack of two
\* elements, which is_empty() reports as not empty.
C8_Witness ==
    /\ op = "assign"
    /\ len(heap, list) = 2
    /\ ~is_empty(list)

----------------------------------------------------------------------------
(* LIFO order (C9) and writes through peek_mut (C10). *)

\* The most recent push whose node is still allocated.
last_pushed == pushed[Len(pushed)]

\* C9: in every state the node at index 0 is the one pushed most recently
\* among those not yet popped, and holds the element pushed with it; every
\* pop and try_pop removes that node and returns that element, so that the
\* elements pushed on a new stack come back in reverse order; and once every
\* push has been popped the stack is empty and try_pop returns None.  Checked
\* on the three lists (the log follows the cells of the generic list).
C9_Lifo ==
    /\ [](pushed # <<>> =>
            /\ list.head = Some(last_pushed.cell)
            /\ lookup(heap, list, 0) = Val(last_pushed.elem)
            /\ opt_lookup(opt_list, 0) = Val(last_pushed.elem)
            /\ enum_lookup(enum_list, 0) = Val(last_pushed.elem))
    /\ [](pushed = <<>> =>
            is_empty(list) /\ opt_is_empty(opt_list) /\ enum_is_empty(enum_list))
    /\ [][(op' = "pop" /\ pushed # <<>>) =>
            /\ result' = Val(last_pushed.elem)
            /\ opt_result' = Val(last_pushed.elem)
            /\ enum_result' = Val(last_pushed.elem)
            /\ pushed' = SubSeq(pushed, 1, Len(pushed) - 1)]_vars
    /\ [][(op' = "try_pop" /\ pushed # <<>>) =>
            /\ result' = Some(last_pushed.elem)
            /\ opt_result' = Some(last_pushed.elem)
            /\ enum_result' = Some(last_pushed.elem)
            /\ pushed' = SubSeq(pushed, 1, Len(pushed) - 1)]_vars
    /\ [][(op' = "try_pop" /\ pushed = <<>>) =>
            /\ result' = None /\ opt_result' = None /\ enum_result' = None
            /\ is_empty(list')]_vars

\* C9 witness: 0 and then 1 were pushed and are both still on the stack when
\* pop returns the 1 on the three lists, leaving the 0 pushed first.
C9_Witness ==
    /\ op = "pop"
    /\ old = <<1, 0>>
    /\ result = Val(1) /\ opt_result = Val(1) /\ enum_result = Val(1)
    /\ Len(pushed) = 1 /\ pushed[1].elem = 0
    /\ lookup(heap, list, 0) = Val(0)

\* C10: when a value w has been assigned through the reference peek_mut
\* returned and the reference expires, len() is what it was before the
\* peek_mut call, every element at an index i >= 1 is what it was, and
\* peek() and lookup(0) give w.
C10_PeekMutWriteThrough ==
    [][(op = "assign" /\ op' = "expire") =>
            /\ len(heap', list') = Len(old)
            /\ \A i \in 2..Len(old) : lookup(heap', list', i - 1) = Val(old[i])
            /\ peek(heap', list') = Val(arg)
            /\ lookup(heap', list', 0) = Val(arg)]_vars

\* C10 witness: the reference has expired after a write of 1 over the head 0
\* of the stack <<0, 1, 0>>, which is now <<1, 1, 0>>.
C10_Witness ==
    /\ op = "expire" /\ arg = 1
    /\ is_none(borrow)
    /\ old = <<0, 1, 0>>
    /\ snap(heap, list) = <<1, 1, 0>>

\* C11: on a non-empty stack pop() behaves as try_pop().unwrap(): it returns
\* the element that was at index 0 before the call, and it leaves the state
\* the non-empty branch of try_pop leaves (the same heap and head link, so the
\* length is one less and every survivor is one index lower); checked on each
\* of the three lists.
C11_PopIsTryPopUnwrap ==
    [][op' = "pop" =>
        /\ ~is_empty(list) =>
              /\ result' = lookup(heap, list, 0)
              /\ result' = Val(old'[1])
              /\ result' = unwrap(try_pop(heap, list).result)
              /\ heap' = try_pop(heap, list).heap
              /\ list' = try_pop(heap, list).self
              /\ head_removed(heap', list', heap, list)
        /\ ~opt_is_empty(opt_list) =>
              /\ opt_result' = opt_lookup(opt_list, 0)
              /\ opt_result' = unwrap(opt_try_pop(opt_list).result)
              /\ opt_list' = opt_try_pop(opt_list).self
              /\ opt_head_removed(opt_list', opt_list)
        /\ ~enum_is_empty(enum_list) =>
              /\ enum_result' = enum_lookup(enum_list, 0)
              /\ enum_result' = unwrap(enum_try_pop(enum_list).result)
              /\ enum_list' = enum_try_pop(enum_list).self
              /\ enum_head_removed(enum_list', enum_list)]_vars

\* C11 witness: pop has returned the 0 on top of <<0, 1, 1>> on the three
\* lists, and the two 1s are what is left.
C11_Witness ==
    /\ op = "pop"
    /\ old = <<0, 1, 1>>
    /\ result = Val(0) /\ opt_result = Val(0) /\ enum_result = Val(0)
    /\ snap(heap, list) = <<1, 1>>
    /\ opt_len(opt_list) = 2 /\ enum_len(enum_list) = 2

\* C12: pop(), peek() and peek_mut() called on an empty stack each panic
\* instead of returning a value (no reference is handed out either), and the
\* stack is still empty afterwards, with the heap untouched.
C12_EmptyStackPanics ==
    [][(op' \in {"pop", "peek", "peek_mut"} /\ is_empty(list)) =>
            /\ result' = Panic
            /\ is_empty(list')
            /\ len(heap', list') = 0
            /\ heap' = heap
            /\ is_none(borrow')]_vars

\* C12 witness: the stack has been emptied by try_pop, and from this empty
\* stack each of pop, peek and peek_mut can be called and panics.
C12_Witness ==
    /\ op = "try_pop" /\ is_some(result)
    /\ is_empty(list)
    /\ ENABLED (Pop /\ result' = Panic /\ is_empty(list'))
    /\ ENABLED (Peek /\ result' = Panic /\ is_empty(list'))
    /\ ENABLED (PeekMut /\ result' = Panic /\ is_empty(list'))

\* C13: lookup(index) with index >= len() returns no element: the call
\* panics (the out-of-range logic error) and leaves the stack unchanged; with
\* index < len() it returns the element of the index-th node counting from
\* the head, which is the node of the (index + 1)-th latest surviving push;
\* checked on each of the three lists.
C13_LookupRange ==
    [][op' = "lookup" =>
        /\ heap' = heap /\ list' = list
        /\ opt_list' = opt_list /\ enum_list' = enum_list
        /\ arg' >= len(heap, list) => result' = Panic
        /\ arg' >= opt_len(opt_list) => opt_result' = Panic
        /\ arg' >= enum_len(enum_list) => enum_result' = Panic
        /\ arg' < len(heap, list) =>
              /\ arg' < Len(pushed)
              /\ result' = Val(pushed[Len(pushed) - arg'].elem)
              /\ result' = Val(old'[arg' + 1])
        /\ arg' < opt_len(opt_list) =>
              /\ arg' < Len(pushed)
              /\ opt_result' = Val(pushed[Len(pushed) - arg'].elem)
        /\ arg' < enum_len(enum_list) =>
              /\ arg' < Len(pushed)
              /\ enum_result' = Val(pushed[Len(pushed) - arg'].elem)]_vars

\* C13 witness: lookup(2) on the two-element stack <<1, 0>> has panicked on
\* the three lists and the stack is still <<1, 0>>, whose second node
\* (index 1, in range) holds the 0.
C13_Witness ==
    /\ op = "lookup" /\ arg = 2
    /\ old = <<1, 0>>
    /\ result = Panic /\ opt_result = Panic /\ enum_result = Panic
    /\ snap(heap, list) = <<1, 0>>
    /\ lookup(heap, list, 1) = Val(0)
    /\ opt_lookup(opt_list, 1) = Val(0) /\ enum_lookup(enum_list, 1) = Val(0)

\* C14: peek() on a non-empty stack returns what lookup(0) returns, the
\* element of the head node, and changes neither the length nor any element;
\* len(), is_empty() and lookup(i) change neither of them too.
C14_QueriesAreFrameFree ==
    [][/\ op' \in {"peek", "len", "is_empty", "lookup"} =>
              /\ len(heap', list') = len(heap, list)
              /\ \A i \in 0..(len(heap, list) - 1) :
                     lookup(heap', list', i) = lookup(heap, list, i)
              /\ heap' = heap /\ list' = list
       /\ (op' = "peek" /\ ~is_empty(list)) =>
              /\ result' = lookup(heap, list, 0)
              /\ result' = Val(heap[list.head.val].elem)
              /\ result' = lookup(heap', list', 0)]_vars

\* C14 witness: peek has returned the 1 on top of <<1, 0, 0>> and the stack is
\* still <<1, 0, 0>>.
C14_Witness ==
    /\ op = "peek"
    /\ result = Val(1)
    /\ old = <<1, 0, 0>>
    /\ snap(heap, list) = <<1, 0, 0>>

\* C15: the length goes up by one exactly on push, down by one exactly on a
\* pop or try_pop of a non-empty stack, and is left alone by every other call
\* (the queries, peek_mut and the writes through its reference, try_pop and
\* the panicking pop on the empty stack); a non-empty stack becomes empty only
\* by a pop or try_pop at length 1.
C15_LengthStateMachine ==
    [][LET before == len(heap, list)
           after == len(heap', list')
           removes == op' \in {"pop", "try_pop"} /\ ~is_empty(list)
       IN  /\ op' = "push" => after = before + 1
           /\ removes => after = before - 1
           /\ (op' # "push" /\ ~removes) => after = before
           /\ after > before => (op' = "push" /\ after = before + 1)
           /\ after < before => (removes /\ after = before - 1)
           /\ (~is_empty(list) /\ is_empty(list')) => (removes /\ before = 1)
           /\ (is_empty(list) /\ ~is_empty(list')) => (op' = "push" /\ after = 1)
           /\ op' # "new"]_vars

\* C15 witness: try_pop has removed the single element of a length-1 stack,
\* and the stack is empty again.
C15_Witness ==
    /\ op = "try_pop"
    /\ old = <<1>>
    /\ result = Some(1)
    /\ is_empty(list) /\ len(heap, list) = 0

\* C16: new() returns an empty stack: on the stack it returns, len() is 0 and
\* is_empty() is true.
C16_NewIsEmpty ==
    op = "new" =>
        /\ len(heap, list) = 0
        /\ is_empty(list)
        /\ snap(heap, list) = << >>

\* C16 witness: the stack new() has just returned, on which len() and
\* is_empty() can be called and return 0 and true.
C16_Witness ==
    /\ op = "new"
    /\ list = new
    /\ ENABLED (Length /\ result' = Val(0))
    /\ ENABLED (IsEmpty /\ result' = Val(TRUE))

\* C17: ownership holds in every reachable state and in the state after each
\* statement of push and try_pop (pop runs try_pop), the states in which the
\* head has been taken and is empty included: every live node has exactly
\* one owning link, and the chain is acyclic and finite; the node a pop or
\* try_pop removed is freed and no longer reachable from the stack.  The
\* state new() makes satisfies it, and so does the state after every step:
\* the last statement's state of a push, pop or try_pop is the state the
\* call ends in, and any other step that touches the heap or the list is
\* checked on the state it ends in.
C17_Ownership ==
    [][/\ op = "new" => ownership(at_rest(heap, list))
       /\ op' = "push" =>
             LET steps == push_steps(heap, list, list'.head.val, arg')
             IN  /\ is_empty(steps[1].self)
                 /\ \A k \in DOMAIN steps : ownership(steps[k])
                 /\ steps[Len(steps)] = at_rest(heap', list')
       /\ op' \in {"pop", "try_pop"} =>
             LET steps == try_pop_steps(heap, list)
             IN  /\ is_empty(steps[1].self)
                 /\ \A k \in DOMAIN steps : ownership(steps[k])
                 /\ steps[Len(steps)] = at_rest(heap', list')
                 /\ ~is_empty(list) =>
                       /\ ~heap'[list.head.val].live
                       /\ list.head.val \notin reachable(heap', list')
       /\ (op' \notin {"push", "pop", "try_pop"} /\ <<heap, list>>' # <<heap, list>>)
             => ownership(at_rest(heap', list'))]_vars

\* C17 witness: the three-node stack <<1, 0, 1>> on which try_pop is about
\* to run: after its take() the head is empty and the scrutinee owns the
\* three nodes, and the call ends with two nodes reachable and the third
\* freed.
C17_Witness ==
    /\ callable
    /\ snap(heap, list) = <<1, 0, 1>>
    /\ LET steps == try_pop_steps(heap, list)
       IN  /\ Len(steps) = 3
           /\ is_empty(steps[1].self)
           /\ Cardinality(chain(steps[1].heap, steps[1].locals[1],
                                Cardinality(Addr))) = 3
           /\ ownership(steps[1]) /\ ownership(steps[2])
           /\ \A k \in DOMAIN steps : \A c \in Addr :
                  owners(steps[k], c) = (IF steps[k].heap[c].live THEN 1 ELSE 0)
           /\ ENABLED (/\ TryPopAll
                       /\ at_rest(heap', list') = steps[3]
                       /\ Cardinality(reachable(heap', list')) = 2
                       /\ ~heap'[list.head.val].live)

\* C18: len(), computed by the recursion over the chain, is the number of
\* nodes reachable from the head (all the live nodes there are), and it is
\* the number of push calls made minus the number of pop and try_pop calls
\* that removed an element; checked on each of the three lists.
C18_LenCountsNodes ==
    /\ len(heap, list) = Cardinality(reachable(heap, list))
    /\ len(heap, list) = Cardinality({c \in Addr : heap[c].live})
    /\ len(heap, list) = balance
    /\ opt_len(opt_list) = balance
    /\ enum_len(enum_list) = balance

\* C18 witness: pop has returned an element of a three-element stack: two
\* more pushes than removing calls have been made, and two nodes are
\* reachable.
C18_Witness ==
    /\ op = "pop" /\ result.tag = "Val"
    /\ Len(old) = 3
    /\ balance = 2
    /\ Cardinality(reachable(heap, list)) = 2
    /\ enum_len(enum_list) = 2 /\ opt_len(opt_list) = 2

\* C19: the enum-link list (main.rs), the Option-link list (list_option.rs)
\* and the generic list agree on integer elements after every sequence of
\* new, push, pop, try_pop, len, lookup and is_empty calls: each call has
\* returned the same result on the three of them (a panic on one is a panic
\* on all), and they hold the same elements in the same order.
C19_VariantsAgree ==
    /\ result = opt_result /\ result = enum_result
    /\ len(heap, list) = opt_len(opt_list)
    /\ len(heap, list) = enum_len(enum_list)
    /\ is_empty(list) = opt_is_empty(opt_list)
    /\ is_empty(list) = enum_is_empty(enum_list)
    /\ \A i \in Index :
          /\ lookup(heap, list, i) = opt_lookup(opt_list, i)
          /\ lookup(heap, list, i) = enum_lookup(enum_list, i)

\* C19 witness: lookup(1) has returned 1 on the three lists, which all hold
\* <<0, 1, 0>> after three more pushes than removals.
C19_Witness ==
    /\ op = "lookup" /\ arg = 1
    /\ result = Val(1) /\ opt_result = Val(1) /\ enum_result = Val(1)
    /\ snap(heap, list) = <<0, 1, 0>>
    /\ opt_lookup(opt_list, 2) = Val(0) /\ enum_lookup(enum_list, 2) = Val(0)
    /\ opt_len(opt_list) = 3 /\ enum_len(enum_list) = 3
    /\ balance = 3

\* C20: on a non-empty stack the reference peek_mut() returns holds, when
\* returned, the current head element (what peek() gives just before the
\* call), and it refers to the head node and to nothing else: a write through
\* it touches the element of that node only, and when the reference is
\* released with nothing written through it the stack is what it was before
\* the peek_mut call.
C20_PeekMutRefersToHead ==
    [][/\ (op' = "peek_mut" /\ ~is_empty(list)) =>
              /\ result' = peek(heap, list)
              /\ result' = Val(old'[1])
              /\ borrow' = list.head
              /\ heap' = heap /\ list' = list
       /\ op' = "assign" =>
              /\ borrow = list.head
              /\ list' = list
              /\ \A c \in Addr : c # list.head.val => heap'[c] = heap[c]
              /\ heap'[list.head.val].next = heap[list.head.val].next
              /\ heap'[list.head.val].live
       /\ (op = "peek_mut" /\ op' = "expire") =>
              /\ heap' = heap /\ list' = list
              /\ snap(heap', list') = old
              /\ len(heap', list') = Len(old)
              /\ peek(heap', list') = result
              /\ is_none(borrow')]_vars

\* C20 witness: peek_mut has returned a reference holding the head element 1
\* of <<1, 0>>, the reference is the head node, and it can be released with
\* nothing written, which leaves <<1, 0>>.
C20_Witness ==
    /\ op = "peek_mut"
    /\ result = Val(1)
    /\ old = <<1, 0>>
    /\ is_some(borrow) /\ borrow = list.head
    /\ ENABLED (Expire /\ snap(heap', list') = <<1, 0>> /\ is_none(borrow'))

====
